---- MODULE Spec2Model ----
(***************************************************************************)
(* State-machine model of the federated chat server engine                 *)
(* (chatproto/src/solutions/descamps_femery.rs).                           *)
(*                                                                         *)
(* The four shared maps of Server<C> are the variables clients, routes,    *)
(* remote_clients and stored_messages; each is guarded by an RwLock whose  *)
(* holders are recorded in locks.  Every async operation is run by a task; *)
(* one action is one stretch of code between two suspension points (lock   *)
(* acquisitions, the spam-check join).                                     *)
(***************************************************************************)
EXTENDS Integers, Sequences, FiniteSets, TLC

\* ---------------------------------------------------------------- bounds
MaxCalls == 3
MaxSeqCalls == 4
MaxSeqId == 2
MaxRouteLen == 2
MaxDests == 2
MAILBOX_SIZE == 1
MaxTable == 2
MaxLiveCalls == 2

\* ------------------------------------------------------------- universes
Tasks == {"t1", "t2"}
LocalIds == {"a", "b"}
ForeignIds == {"z"}
ClientIds == LocalIds \cup ForeignIds
ServerIds == {"s0", "h1", "h2"}
Contents == {"m1", "m2"}
Payloads == {"p"}
Names == {"n1"}
Ips == {"ip1"}
SelfId == "s0"

NoTask == "none"
LockNames == {"clients", "routes", "remote_clients", "stored_messages"}

\* ---------------------------------------------------------------- values
None == [kind |-> "None"]
Some(v) == [kind |-> "Some", val |-> v]

SeqsUpTo(S, n) == UNION {[1..k -> S] : k \in 0..n}
Last(s) == s[Len(s)]

\* variant: a new client has no accepted seqid, every seqid is above it
NewClientUnsequenced(ip, name) ==
  [src_ip |-> ip, name |-> name, seqid |-> -1, mailbox |-> <<>>]
\* Client { _src_ip, name, seqid: 0, mailbox: VecDeque::new() }
NewClient(ip, name) == [src_ip |-> ip, name |-> name, seqid |-> 0, mailbox |-> <<>>]
RemoteClient(name, srv) == [name |-> name, srcsrv |-> srv]
Message(src, content) == [src |-> src, content |-> content]
FullyQualifiedMessage(src, srcsrv, dsts, content) ==
  [src |-> src, srcsrv |-> srcsrv, dsts |-> dsts, content |-> content]
Outgoing(nexthop, message) == [nexthop |-> nexthop, message |-> message]

\* HashMap insert / remove on a function with a finite domain
MapInsert(m, k, v) == [x \in DOMAIN m \cup {k} |-> IF x = k THEN v ELSE m[x]]
\* variant: the entry is read and left in the map
MapKeep(m, k) == m
MapRemove(m, k) == [x \in DOMAIN m \ {k} |-> m[x]]
EmptyMap == [x \in {} |-> None]

VARIABLES clients, routes, remote_clients, stored_messages, locks,
          pc, call, returned, budget,
          accepted, delivered, polled, announced, deferred, emitted

vars == <<clients, routes, remote_clients, stored_messages, locks,
          pc, call, returned, budget,
          accepted, delivered, polled, announced, deferred, emitted>>

shared == <<clients, routes, remote_clients, stored_messages>>
\* what the callers and the peers have seen so far, per client id:
\*   accepted   the seqids handle_sequenced_message answered Ok for
\*   delivered  the entries pushed into the mailbox
\*   polled     the entries client_poll returned
\*   announced  the route of the latest Announce that recorded the id as remote
\*   deferred   the messages stored for later delivery
\*   emitted    the stored messages handed out in an Outgoing, each with the
\*              number of messages deferred for the id up to then
ghosts == <<accepted, delivered, polled, announced, deferred, emitted>>

\* ----------------------------------------------------------------- locks
\* async_std RwLock: one writer or any number of readers.
CanWrite(l) == locks[l].w = NoTask /\ locks[l].r = {}
CanRead(l) == locks[l].w = NoTask
WriteLocked(lk, l, t) == [lk EXCEPT ![l].w = t]
ReadLocked(lk, l, t) == [lk EXCEPT ![l].r = @ \cup {t}]
\* variant: the guard of clients outlives the call that took it
ReleasedButClients(lk, t) ==
  [l \in LockNames |->
     IF l = "clients" THEN lk[l]
     ELSE [w |-> IF lk[l].w = t THEN NoTask ELSE lk[l].w, r |-> lk[l].r \ {t}]]
Released(lk, t) ==
  [l \in LockNames |-> [w |-> IF lk[l].w = t THEN NoTask ELSE lk[l].w,
                        r |-> lk[l].r \ {t}]]
HeldBy(t) == {l \in LockNames : locks[l].w = t \/ t \in locks[l].r}

\* ------------------------------------------------------------------ init
NoCall == [op |-> "none"]
NoReturn == [task |-> NoTask, call |-> NoCall, reply |-> None]

Init ==
  /\ clients = EmptyMap
  /\ routes = <<>>
  /\ remote_clients = EmptyMap
  /\ stored_messages = EmptyMap
  /\ locks = [l \in LockNames |-> [w |-> NoTask, r |-> {}]]
  /\ pc = [t \in Tasks |-> "idle"]
  /\ call = [t \in Tasks |-> NoCall]
  /\ returned = NoReturn
  /\ budget = MaxCalls
  /\ accepted = [c \in ClientIds |-> <<>>]
  /\ delivered = [c \in ClientIds |-> <<>>]
  /\ polled = [c \in ClientIds |-> <<>>]
  /\ announced = [c \in ClientIds |-> <<>>]
  /\ deferred = [c \in ClientIds |-> <<>>]
  /\ emitted = [c \in ClientIds |-> <<>>]

\* A task that runs no operation starts one.  An operation is in flight
\* only from its first await that another operation can be ordered against.
\* (the model starts no operation once its budget of calls is used up)
CanStart(t) == pc[t] = "idle" /\ budget > 0

\* The operation c of task t returns r to its caller: returned holds the
\* call and its reply in the state in which it returns.
Finish(t, c, r) ==
  /\ pc' = [pc EXCEPT ![t] = "idle"]
  /\ call' = [call EXCEPT ![t] = NoCall]
  /\ returned' = [task |-> t, call |-> c, reply |-> r]

\* The operation c of task t is suspended at the await named at.
Goto(t, c, at) ==
  /\ pc' = [pc EXCEPT ![t] = at]
  /\ call' = [call EXCEPT ![t] = c]
  /\ returned' = NoReturn

\* ------------------------------------------------- register_local_client
\* what a spam check does: answers false, answers true, or does not answer
\* within the two seconds
CheckBehaviours == {"clean", "spam", "never"}
\* what the join! sees of a check: Ok(false), Ok(true) or Err(TimeoutError)
CheckOutcomes == {"clean", "spam", "timeout"}

\* variant: the check is awaited without a timeout
Awaited(check) == check
\* timeout(spam_check_timeout, self.checker.is_.._spammer(..))
Timeout(check) == IF check = "never" THEN "timeout" ELSE check

\* Uuid::new_v4(): an id that no caller and no peer has named so far.
NewV4 == LocalIds \ DOMAIN clients
\* The ids a caller or a peer can name: those handed out by registration
\* and those of clients of other servers.
KnownIds == DOMAIN clients \cup ForeignIds

Registering == {t \in Tasks : pc[t] \in {"reg_join", "reg_insert"}}

\* variant: a check that timed out counts as "not a spammer"
RegistrationUnlessSpam(ipres, userres) == ipres # "spam" /\ userres # "spam"
\* (Ok(ip_result), Ok(user_result)) with !ip_result && !user_result
RegistrationAllowed(ipres, userres) == ipres = "clean" /\ userres = "clean"

\* the call is made; both spam checks are pending
RegisterStart(t, ip, name, ipcheck, usercheck) ==
  /\ CanStart(t)
  /\ Cardinality(NewV4) > Cardinality(Registering)
  /\ Goto(t, [op |-> "register", ip |-> ip, name |-> name,
              ipcheck |-> ipcheck, usercheck |-> usercheck], "reg_join")
  /\ budget' = budget - 1
  /\ UNCHANGED <<shared, locks, ghosts>>

\* join!(timeout(.. is_ip_spammer ..), timeout(.. is_user_spammer ..)): the
\* join completes once both of its futures have completed
RegisterJoin(t) ==
  /\ pc[t] = "reg_join"
  /\ LET ipres == Timeout(call[t].ipcheck)
         userres == Timeout(call[t].usercheck)
         c == call[t] @@ [ipres |-> ipres, userres |-> userres]
     IN /\ ipres \in CheckOutcomes
        /\ userres \in CheckOutcomes
        /\ IF RegistrationAllowed(ipres, userres)
             THEN Goto(t, c, "reg_insert")
             ELSE Finish(t, c, None)
  /\ UNCHANGED <<shared, locks, budget, ghosts>>

\* self.clients.write().await.insert(client, client_info); Some(client)
RegisterInsert(t, id) ==
  /\ pc[t] = "reg_insert"
  /\ CanWrite("clients")
  /\ id \in NewV4
  /\ clients' = MapInsert(clients, id, NewClient(call[t].ip, call[t].name))
  /\ Finish(t, call[t], Some(id))
  /\ UNCHANGED <<routes, remote_clients, stored_messages, locks, budget, ghosts>>

\* ---------------------------------------------- handle_sequenced_message
\* variant: client.seqid <= sequence.seqid
SeqIdNotBelow(last, seqid) == last <= seqid
\* variant: client.seqid != sequence.seqid
SeqIdDiffers(last, seqid) == last # seqid
\* if client.seqid < sequence.seqid
SeqIdAccepted(last, seqid) == last < seqid

OkReply(content) == [kind |-> "Ok", val |-> content]
ErrReply(e) == [kind |-> "Err", err |-> e]

SequencedMessage(t, src, seqid, content) ==
  /\ CanStart(t)
  /\ CanWrite("clients")
  /\ LET c == [op |-> "sequenced", src |-> src, seqid |-> seqid,
               content |-> content]
     IN IF src \in DOMAIN clients
          THEN IF SeqIdAccepted(clients[src].seqid, seqid)
                 THEN /\ clients' = [clients EXCEPT ![src].seqid = seqid]
                      /\ accepted' = [accepted EXCEPT ![src] = Append(@, seqid)]
                      /\ Finish(t, c, OkReply(content))
                 ELSE /\ Finish(t, c, ErrReply("InternalError"))
                      /\ UNCHANGED <<clients, accepted>>
          ELSE /\ Finish(t, c, ErrReply("UnknownClient"))
               /\ UNCHANGED <<clients, accepted>>
  /\ budget' = budget - 1
  /\ UNCHANGED <<routes, remote_clients, stored_messages, locks, delivered, polled,
                 announced, deferred, emitted>>

\* ----------------------------------------------------------- client_poll
\* variant: the entry is taken off the other end of the queue
PopBack(mailbox) == SubSeq(mailbox, 1, Len(mailbox) - 1)
\* clt.mailbox.pop_front()
PopFront(mailbox) == Tail(mailbox)
Front(mailbox) == Head(mailbox)

PollMessage(m) == [kind |-> "Message", src |-> m[1], content |-> m[2]]
PollNothing == [kind |-> "Nothing"]
\* variant: an unknown id is answered like an empty mailbox
PollUnknownAsNothing(client) == PollNothing
PollUnknownRecipient(client) ==
  [kind |-> "DelayedError", err |-> [kind |-> "UnknownRecipient", id |-> client]]

ClientPoll(t, client) ==
  /\ CanStart(t)
  /\ CanWrite("clients")
  /\ LET c == [op |-> "poll", client |-> client]
     IN IF client \in DOMAIN clients
          THEN IF clients[client].mailbox # <<>>
                 THEN LET m == Front(clients[client].mailbox)
                      IN /\ clients' = [clients EXCEPT ![client].mailbox = PopFront(@)]
                         /\ polled' = [polled EXCEPT ![client] = Append(@, m)]
                         /\ Finish(t, c, PollMessage(m))
                 ELSE /\ Finish(t, c, PollNothing)
                      /\ UNCHANGED <<clients, polled>>
          ELSE /\ Finish(t, c, PollUnknownRecipient(client))
               /\ UNCHANGED <<clients, polled>>
  /\ budget' = budget - 1
  /\ UNCHANGED <<routes, remote_clients, stored_messages, locks, accepted, delivered,
                 announced, deferred, emitted>>

\* ------------------------------------ handle_client_message / client_message
\* ClientMessage::Text { dest, content } | ClientMessage::MText { dest, content }
TextMsg(dest, content) == [kind |-> "Text", dest |-> dest, content |-> content]
MTextMsg(dest, content) == [kind |-> "MText", dest |-> dest, content |-> content]
ClientMessages ==
  {TextMsg(d, c) : d \in KnownIds, c \in Contents}
    \cup {MTextMsg(d, c) : d \in SeqsUpTo(KnownIds, MaxDests), c \in Contents}
Senders == KnownIds

\* the destinations handle_client_message runs client_message for, in order
DestsOf(msg) == IF msg.kind = "Text" THEN <<msg.dest>> ELSE msg.dest

ClientMessageCall(src, msg) ==
  [op |-> "client_message", src |-> src, msg |-> msg,
   todo |-> DestsOf(msg), resp |-> <<>>]

\* resp.push(reply of client_message); the guards of client_message are
\* dropped; the loop goes on with the next destination or resp is returned.
PushReply(t, c, r) ==
  LET resp == Append(c.resp, r)
      todo == Tail(c.todo)
      c1 == [c EXCEPT !.resp = resp, !.todo = todo]
  IN /\ locks' = Released(locks, t)
     /\ IF todo = <<>> THEN Finish(t, c1, resp) ELSE Goto(t, c1, "cm_clients")

\* MText with no destination: the loop body never runs.
ClientMessageNoDest(t, src, msg) ==
  /\ CanStart(t)
  /\ DestsOf(msg) = <<>>
  /\ Finish(t, ClientMessageCall(src, msg), <<>>)
  /\ budget' = budget - 1
  /\ UNCHANGED <<shared, locks, ghosts>>

\* if client.mailbox.len() == MAILBOX_SIZE
BoxIsFull(mailbox) == Len(mailbox) = MAILBOX_SIZE
\* variant: the entry is not put into the mailbox
Dropped(mailbox, src, content) == mailbox
\* client.mailbox.push_back((src, content))
PushBack(mailbox, src, content) == Append(mailbox, <<src, content>>)
\* variant: BoxFull carries the sender
BoxFullSender(src, dest) == [kind |-> "Error", err |-> [kind |-> "BoxFull", id |-> src]]
\* ClientReply::Error(ClientError::BoxFull(dest))
BoxFullError(src, dest) == [kind |-> "Error", err |-> [kind |-> "BoxFull", id |-> dest]]
Delivered == [kind |-> "Delivered"]
Delayed == [kind |-> "Delayed"]
UnknownClientError == [kind |-> "Error", err |-> [kind |-> "UnknownClient"]]
Transfer(nexthop, fqm) ==
  [kind |-> "Transfer", nexthop |-> nexthop,
   message |-> [kind |-> "Message", fqm |-> fqm]]

\* let mut client = self.clients.write().await; match client.get_mut(&dest)
ClientMessageDest(t, c) ==
  /\ CanWrite("clients")
  /\ LET dest == Head(c.todo)
         src == c.src
         content == c.msg.content
     IN IF dest \in DOMAIN clients
          THEN IF BoxIsFull(clients[dest].mailbox)
                 THEN /\ PushReply(t, c, BoxFullError(src, dest))
                      /\ UNCHANGED <<clients, delivered>>
                 ELSE /\ clients' = [clients EXCEPT ![dest].mailbox =
                                       PushBack(@, src, content)]
                      /\ delivered' = [delivered EXCEPT ![dest] =
                                         Append(@, <<src, content>>)]
                      /\ PushReply(t, c, Delivered)
          ELSE /\ locks' = WriteLocked(locks, "clients", t)
               /\ Goto(t, c, "cm_remote")
               /\ UNCHANGED <<clients, delivered>>
  /\ UNCHANGED <<routes, remote_clients, stored_messages, accepted, polled,
                 announced, deferred, emitted>>

\* handle_client_message up to the end of its first client_message lookup
ClientMessageFirst(t, src, msg) ==
  /\ CanStart(t)
  /\ DestsOf(msg) # <<>>
  /\ ClientMessageDest(t, ClientMessageCall(src, msg))
  /\ budget' = budget - 1

\* the next iteration of: for dst in dest { self.client_message(..).await }
ClientMessageNext(t) ==
  /\ pc[t] = "cm_clients"
  /\ ClientMessageDest(t, call[t])
  /\ UNCHANGED budget

\* variant: the guard of remote_clients is dropped once the lookup is done
RemoteClientsDropped(lk, t) == lk
\* let remote_client = ..: the guard lives to the end of client_message
RemoteClientsHeld(lk, t) == WriteLocked(lk, "remote_clients", t)

\* let remote_client = self.remote_clients.write().await; match .get(&dest)
ClientMessageRemote(t) ==
  /\ pc[t] = "cm_remote"
  /\ CanWrite("remote_clients")
  /\ locks' = RemoteClientsHeld(locks, t)
  /\ Goto(t, call[t], IF Head(call[t].todo) \in DOMAIN remote_clients
                        THEN "cm_routes" ELSE "cm_store")
  /\ UNCHANGED <<shared, budget, ghosts>>

\* variant: the next hop is the head of the route
get_first(route) == Head(route)
\* get_srv_dist / get_nexthop
get_srv_dist(route) == Head(route)
get_nexthop(route) == Last(route)

\* for route in routes.iter() { if srv_dst == client_remote_info.srcsrv ... }
MatchingRoutes(rs, srv) == {i \in 1..Len(rs) : get_srv_dist(rs[i]) = srv}
\* variant: the scan keeps the last matching route
PickLatestRoute(rs, srv) == CHOOSE i \in MatchingRoutes(rs, srv) :
                              \A j \in MatchingRoutes(rs, srv) : i >= j
PickRoute(rs, srv) == CHOOSE i \in MatchingRoutes(rs, srv) :
                        \A j \in MatchingRoutes(rs, srv) : i <= j

ClientMessageTransfer(t) ==
  /\ pc[t] = "cm_routes"
  /\ CanRead("routes")
  /\ LET dest == Head(call[t].todo)
         srv == remote_clients[dest].srcsrv
     IN IF MatchingRoutes(routes, srv) # {}
          THEN LET route == routes[PickRoute(routes, srv)]
               IN PushReply(t, call[t], Transfer(get_nexthop(route),
                      FullyQualifiedMessage(call[t].src, SelfId,
                        <<<<dest, get_srv_dist(route)>>>>, call[t].msg.content)))
          ELSE PushReply(t, call[t], UnknownClientError)
  /\ UNCHANGED <<shared, budget, ghosts>>

\* variant: entry(dest).or_insert(..), an earlier stored message stays
StoreFirstMessage(stored, src, dest, content) ==
  IF dest \in DOMAIN stored THEN stored
  ELSE MapInsert(stored, dest, Message(src, content))
\* variant: the message is filed under its sender
StoreUnderSender(stored, src, dest, content) ==
  MapInsert(stored, src, Message(src, content))
\* stored_messages.insert(dest, Message { src, content })
StoreMessage(stored, src, dest, content) ==
  MapInsert(stored, dest, Message(src, content))

\* self.stored_messages.write().await.insert(..); ClientReply::Delayed
ClientMessageStore(t) ==
  /\ pc[t] = "cm_store"
  /\ CanWrite("stored_messages")
  /\ LET dest == Head(call[t].todo)
     IN /\ stored_messages' = StoreMessage(stored_messages, call[t].src, dest,
                                           call[t].msg.content)
        /\ deferred' = [deferred EXCEPT ![dest] =
                          Append(@, Message(call[t].src, call[t].msg.content))]
  /\ PushReply(t, call[t], Delayed)
  /\ UNCHANGED <<clients, routes, remote_clients, budget,
                 accepted, delivered, polled, announced, emitted>>

\* -------------------------------------------------------------- route_to
\* graph.entry(a).or_default().push(b): adjacency lists in insertion order
AddEdge(g, a, b) ==
  LET g1 == [g EXCEPT ![a] = Append(@, b)]
  IN [g1 EXCEPT ![b] = Append(@, a)]

RECURSIVE AddWindows(_, _, _)
AddWindows(g, route, i) ==
  IF i >= Len(route) THEN g
  ELSE AddWindows(AddEdge(g, route[i], route[i + 1]), route, i + 1)

\* variant: self is linked to the first server of the route
AddRouteFromFirst(g, route) ==
  LET g1 == AddWindows(g, route, 1)
  IN IF route # <<>> THEN AddEdge(g1, SelfId, Head(route)) ELSE g1
\* one stored route: its windows(2), then self -- route.last()
AddRoute(g, route) ==
  LET g1 == AddWindows(g, route, 1)
  IN IF route # <<>> THEN AddEdge(g1, SelfId, Last(route)) ELSE g1

RECURSIVE BuildGraph(_, _, _)
BuildGraph(g, rs, i) ==
  IF i > Len(rs) THEN g ELSE BuildGraph(AddRoute(g, rs[i]), rs, i + 1)

Graph(rs) == BuildGraph([s \in ServerIds |-> <<>>], rs, 1)

\* visited.entry(neighbor).or_insert_with(|| { queue.push_back(neighbor); .. })
RECURSIVE Visit(_, _, _, _, _)
Visit(queue, visited, neighbors, current, i) ==
  IF i > Len(neighbors) THEN [queue |-> queue, visited |-> visited]
  ELSE IF neighbors[i] \in DOMAIN visited
         THEN Visit(queue, visited, neighbors, current, i + 1)
         ELSE Visit(Append(queue, neighbors[i]),
                    MapInsert(visited, neighbors[i], Some(current)),
                    neighbors, current, i + 1)

\* path.push(n); node = visited.get(&n).and_then(|&v| v); then path.reverse()
RECURSIVE PathTo(_, _)
PathTo(visited, n) ==
  IF visited[n] = None THEN <<n>>
  ELSE Append(PathTo(visited, visited[n].val), n)

RECURSIVE Bfs(_, _, _, _)
Bfs(g, queue, visited, destination) ==
  IF queue = <<>> THEN None
  ELSE LET current == Head(queue)
       IN IF current = destination
            THEN Some(PathTo(visited, current))
            ELSE LET v == Visit(Tail(queue), visited, g[current], current, 1)
                 IN Bfs(g, v.queue, v.visited, destination)

route_to(rs, destination) ==
  Bfs(Graph(rs), <<SelfId>>, MapInsert(EmptyMap, SelfId, None), destination)

RouteTo(t, destination) ==
  /\ CanStart(t)
  /\ CanRead("routes")
  /\ Finish(t, [op |-> "route_to", destination |-> destination],
            route_to(routes, destination))
  /\ budget' = budget - 1
  /\ UNCHANGED <<shared, locks, ghosts>>

\* ------------------------------------------------------------ list_users
ListUsers(t) ==
  /\ CanStart(t)
  /\ CanRead("clients")
  /\ Finish(t, [op |-> "list_users"], [id \in DOMAIN clients |-> clients[id].name])
  /\ budget' = budget - 1
  /\ UNCHANGED <<shared, locks, ghosts>>

\* ---------------------------------------- handle_server_message: Announce
\* routes over the other servers that visit no server twice
Routes ==
  {r \in SeqsUpTo(ServerIds \ {SelfId}, MaxRouteLen) :
     \A i, j \in 1..Len(r) : r[i] = r[j] => i = j}
EmptyRoute == [kind |-> "EmptyRoute"]
OutgoingReply(resp) == [kind |-> "Outgoing", out |-> resp]
ErrorReply(msg) == [kind |-> "Error", msg |-> msg]

\* ServerMessage::Announce { route, clients }
Announces ==
  UNION {{[route |-> route, clients |-> names] : names \in [ids -> Names]} :
         route \in Routes, ids \in SUBSET KnownIds}

AnnounceCall(msg) ==
  [op |-> "announce", route |-> msg.route, clients |-> msg.clients,
   todo |-> DOMAIN msg.clients, cur |-> None, resp |-> <<>>]

\* variant: the route is not looked at
NeverEmpty(route) == FALSE
\* route.is_empty()
IsEmpty(route) == route = <<>>

\* if route.is_empty() { return ServerReply::EmptyRoute; }
AnnounceEmptyRoute(t, msg) ==
  /\ CanStart(t)
  /\ IsEmpty(msg.route)
  /\ Finish(t, AnnounceCall(msg), EmptyRoute)
  /\ budget' = budget - 1
  /\ UNCHANGED <<shared, locks, ghosts>>

\* variant: the announced route takes the place of the stored ones
ReplaceRoutes(rs, route) == <<route>>
\* routes.push(route.clone())
PushRoute(rs, route) == Append(rs, route)

\* self.routes.write().await.push(route.clone())
AnnounceRoute(t, msg) ==
  /\ CanStart(t)
  /\ CanWrite("routes")
  /\ ~IsEmpty(msg.route)
  /\ routes' = PushRoute(routes, msg.route)
  /\ IF DOMAIN msg.clients = {}
       THEN Finish(t, AnnounceCall(msg), OutgoingReply(<<>>))
       ELSE Goto(t, AnnounceCall(msg), "ann_remote")
  /\ budget' = budget - 1
  /\ UNCHANGED <<clients, remote_clients, stored_messages, locks, ghosts>>

\* for (client_dst, name) in clients { self.remote_clients.write().await.insert(..) }
AnnounceRemote(t, client_dst) ==
  /\ pc[t] = "ann_remote"
  /\ CanWrite("remote_clients")
  /\ client_dst \in call[t].todo
  /\ remote_clients' = MapInsert(remote_clients, client_dst,
       RemoteClient(call[t].clients[client_dst], get_srv_dist(call[t].route)))
  /\ announced' = [announced EXCEPT ![client_dst] = call[t].route]
  /\ Goto(t, [call[t] EXCEPT !.cur = Some(client_dst)], "ann_flush")
  /\ UNCHANGED <<clients, routes, stored_messages, locks, budget,
                 accepted, delivered, polled, deferred, emitted>>

\* variant: the Outgoing is sent to the head of the route
FlushToRouteHead(route, client_dst, message) ==
  Outgoing(get_srv_dist(route),
           FullyQualifiedMessage(message.src, SelfId,
             <<<<client_dst, get_srv_dist(route)>>>>, message.content))
\* the Outgoing built for a stored message of client_dst
FlushOutgoing(route, client_dst, message) ==
  Outgoing(get_nexthop(route),
           FullyQualifiedMessage(message.src, SelfId,
             <<<<client_dst, get_srv_dist(route)>>>>, message.content))

\* if let Some(message) = self.stored_messages.write().await.remove(&client_dst)
AnnounceFlush(t) ==
  /\ pc[t] = "ann_flush"
  /\ CanWrite("stored_messages")
  /\ LET client_dst == call[t].cur.val
         todo == call[t].todo \ {client_dst}
         resp == IF client_dst \in DOMAIN stored_messages
                   THEN Append(call[t].resp,
                          FlushOutgoing(call[t].route, client_dst,
                                        stored_messages[client_dst]))
                   ELSE call[t].resp
         c1 == [call[t] EXCEPT !.todo = todo, !.resp = resp, !.cur = None]
     IN /\ stored_messages' = MapRemove(stored_messages, client_dst)
        /\ emitted' =
             IF Len(resp) > Len(call[t].resp)
               THEN [emitted EXCEPT ![client_dst] =
                       Append(@, [n |-> Len(deferred[client_dst]),
                                  src |-> Last(resp).message.src,
                                  content |-> Last(resp).message.content])]
               ELSE emitted
        /\ IF todo = {}
             THEN Finish(t, c1, OutgoingReply(resp))
             ELSE Goto(t, c1, "ann_remote")
  /\ UNCHANGED <<clients, routes, remote_clients, locks, budget,
                 accepted, delivered, polled, announced, deferred>>

\* ----------------------------------------- handle_server_message: Message
\* the destinations after the first are clients of this server
Dsts ==
  {<<>>} \cup
  UNION {{<<d>> \o rest : rest \in SeqsUpTo((DOMAIN clients) \X {SelfId}, MaxDests - 1)} :
         d \in KnownIds \X ServerIds}
FqmSrcs == ForeignIds
FqmSrcSrvs == {"h1"}

\* ServerMessage::Message(FullyQualifiedMessage)
Fqms ==
  {FullyQualifiedMessage(src, srcsrv, dsts, content) :
     src \in FqmSrcs, srcsrv \in FqmSrcSrvs, dsts \in Dsts, content \in Contents}

\* fully_qualified_message.dsts is empty
ServerMessageNoDest(t, fqm) ==
  /\ CanStart(t)
  /\ fqm.dsts = <<>>
  /\ Finish(t, [op |-> "message", fqm |-> fqm],
            ErrorReply("No destination found for the message"))
  /\ budget' = budget - 1
  /\ UNCHANGED <<shared, locks, ghosts>>

\* variant: the last destination is the one acted on
LastDst(dsts) == Last(dsts)
\* fully_qualified_message.dsts.clone().into_iter().next()
FirstDst(dsts) == Head(dsts)

\* if let Some(info) = self.clients.write().await.get_mut(&client_dst) { push_back }
ServerMessageDeliver(t, fqm) ==
  /\ CanStart(t)
  /\ CanWrite("clients")
  /\ fqm.dsts # <<>>
  /\ Goto(t, [op |-> "message", fqm |-> fqm], "msg_route")
  /\ LET client_dst == FirstDst(fqm.dsts)[1]
     IN IF client_dst \in DOMAIN clients
          THEN /\ clients' = [clients EXCEPT ![client_dst].mailbox =
                                PushBack(@, fqm.src, fqm.content)]
               /\ delivered' = [delivered EXCEPT ![client_dst] =
                                  Append(@, <<fqm.src, fqm.content>>)]
          ELSE UNCHANGED <<clients, delivered>>
  /\ budget' = budget - 1
  /\ UNCHANGED <<routes, remote_clients, stored_messages, locks, accepted, polled,
                 announced, deferred, emitted>>

\* variant: the message is sent to the first server after this one on the path
ForwardToFirstHop(route, fqm) ==
  Outgoing(IF Len(route) > 1 THEN route[2] ELSE route[1], fqm)
\* Outgoing { nexthop: self.get_nexthop(&route), message: fully_qualified_message }
ForwardOutgoing(route, fqm) == Outgoing(get_nexthop(route), fqm)

\* match self.route_to(server_dst).await { .. }; nexthop = get_nexthop(&route)
ServerMessageForward(t) ==
  /\ pc[t] = "msg_route"
  /\ CanRead("routes")
  /\ LET fqm == call[t].fqm
         route == route_to(routes, FirstDst(fqm.dsts)[2])
     IN IF route = None
          THEN Finish(t, call[t], ErrorReply("Route for the client not found"))
          ELSE Finish(t, call[t],
                      OutgoingReply(<<ForwardOutgoing(route.val, fqm)>>))
  /\ UNCHANGED <<shared, locks, budget, ghosts>>

\* ------------------------------------------------------------------ spec
\* the operations a task starts
StartCall(t) ==
  \/ \E ip \in Ips, name \in Names, ipcheck \in CheckBehaviours,
          usercheck \in CheckBehaviours :
       RegisterStart(t, ip, name, ipcheck, usercheck)
  \/ \E src \in KnownIds, seqid \in 0..MaxSeqId, content \in Payloads :
       SequencedMessage(t, src, seqid, content)
  \/ \E client \in KnownIds : ClientPoll(t, client)
  \/ \E src \in Senders, msg \in ClientMessages : ClientMessageNoDest(t, src, msg)
  \/ \E src \in Senders, msg \in ClientMessages : ClientMessageFirst(t, src, msg)
  \/ \E msg \in Announces : AnnounceEmptyRoute(t, msg)
  \/ \E msg \in Announces : AnnounceRoute(t, msg)
  \/ \E fqm \in Fqms : ServerMessageNoDest(t, fqm)
  \/ \E fqm \in Fqms : ServerMessageDeliver(t, fqm)
  \/ \E destination \in ServerIds : RouteTo(t, destination)
  \/ ListUsers(t)

\* the operations in flight go on from their await
Resume(t) ==
  \/ RegisterJoin(t)
  \/ \E id \in LocalIds : RegisterInsert(t, id)
  \/ ClientMessageNext(t)
  \/ ClientMessageRemote(t)
  \/ ClientMessageTransfer(t)
  \/ ClientMessageStore(t)
  \/ \E client_dst \in ClientIds : AnnounceRemote(t, client_dst)
  \/ AnnounceFlush(t)
  \/ ServerMessageForward(t)

Next == \E t \in Tasks : StartCall(t) \/ Resume(t)

Spec == Init /\ [][Next]_vars

\* One task: the operations run one after the other, for MaxSeqCalls calls.
SeqInit ==
  /\ clients = EmptyMap
  /\ routes = <<>>
  /\ remote_clients = EmptyMap
  /\ stored_messages = EmptyMap
  /\ locks = [l \in LockNames |-> [w |-> NoTask, r |-> {}]]
  /\ pc = [t \in Tasks |-> "idle"]
  /\ call = [t \in Tasks |-> NoCall]
  /\ returned = NoReturn
  /\ budget = MaxSeqCalls
  /\ accepted = [c \in ClientIds |-> <<>>]
  /\ delivered = [c \in ClientIds |-> <<>>]
  /\ polled = [c \in ClientIds |-> <<>>]
  /\ announced = [c \in ClientIds |-> <<>>]
  /\ deferred = [c \in ClientIds |-> <<>>]
  /\ emitted = [c \in ClientIds |-> <<>>]

SeqNext == StartCall("t1") \/ Resume("t1")

SeqSpec == SeqInit /\ [][SeqNext]_vars

\* ---------------------------------------------------------------- claims
\* The operation of task t as it stands after a step of t: the call that
\* has just returned, or the call still in flight.
After(t) == IF pc'[t] = "idle" THEN returned'.call ELSE call'[t]

\* A step in which task t appends to the replies of its handle_client_message
\* the reply for destination d.
RepliesTo(t, d) ==
  /\ pc[t] \in {"idle", "cm_clients", "cm_routes", "cm_store"}
  /\ pc'[t] = "idle" => returned'.task = t
  /\ After(t).op = "client_message"
  /\ Len(After(t).resp) = (IF pc[t] = "idle" THEN 0 ELSE Len(call[t].resp)) + 1
  /\ d = DestsOf(After(t).msg)[Len(After(t).resp)]
NewReply(t) == Last(After(t).resp)

\* C1: no mailbox ever holds more than MAILBOX_SIZE entries.
C1_MailboxBounded ==
  \A c \in DOMAIN clients : Len(clients[c].mailbox) <= MAILBOX_SIZE

\* C2: the seqids accepted for a client are strictly increasing, whatever the
\* interleaving of the calls: no seqid is accepted twice, none after a larger one.
C2_SeqIdsIncrease ==
  \A c \in ClientIds : \A i, j \in 1..Len(accepted[c]) :
    i < j => accepted[c][i] < accepted[c][j]
C2_Witness ==
  \E c \in ClientIds : Len(accepted[c]) = 2 /\ pc = [t \in Tasks |-> "idle"]

\* C3: the entries delivered to a mailbox are polled in the order of their
\* delivery: what was delivered is what was polled followed by the mailbox.
C3_Fifo ==
  \A c \in ClientIds :
    delivered[c] = polled[c] \o (IF c \in DOMAIN clients
                                   THEN clients[c].mailbox ELSE <<>>)
C3_Witness ==
  \E c \in DOMAIN clients :
    /\ Len(delivered[c]) = 2 /\ delivered[c][1] # delivered[c][2]
    /\ Len(polled[c]) = 1 /\ Len(clients[c].mailbox) = 1

\* C4: a client message for a local recipient whose mailbox holds
\* MAILBOX_SIZE entries is answered Error(BoxFull(recipient)) and leaves that
\* mailbox as it is.
C4_BoxFull ==
  [][\A t \in Tasks, d \in ClientIds :
       (/\ d \in DOMAIN clients
        /\ Len(clients[d].mailbox) = MAILBOX_SIZE
        /\ RepliesTo(t, d))
       => /\ NewReply(t) = [kind |-> "Error", err |-> [kind |-> "BoxFull", id |-> d]]
          /\ clients'[d].mailbox = clients[d].mailbox]_vars
C4_Witness ==
  /\ returned.call.op = "client_message"
  /\ \E i \in 1..Len(returned.reply) :
       LET d == DestsOf(returned.call.msg)[i]
       IN /\ d # returned.call.src
          /\ returned.reply[i] = [kind |-> "Error", err |-> [kind |-> "BoxFull", id |-> d]]
          /\ Len(clients[d].mailbox) = MAILBOX_SIZE

\* A step in which task t runs the stored-message lookup of its Announce for
\* the client it has just recorded.
FlushStep(t) == pc[t] = "ann_flush" /\ pc'[t] # "ann_flush"

\* C5: when an Announce with route r comes to a client C it names and a
\* message (s, txt) is stored for C, the reply gains exactly the entry
\* Outgoing{nexthop = last of r, FQM{s, this server, [(C, first of r)], txt}}
\* and the stored message is removed; with no stored message for C the reply
\* gains nothing.  The reply holds at most one entry per announced client.
C5_AnnounceFlush ==
  [][\A t \in Tasks :
       FlushStep(t) =>
         LET C == call[t].cur.val
             r == call[t].route
         IN /\ stored_messages' = MapRemove(stored_messages, C)
            /\ After(t).resp =
                 IF C \in DOMAIN stored_messages
                   THEN Append(call[t].resp,
                          [nexthop |-> r[Len(r)],
                           message |-> [src |-> stored_messages[C].src,
                                        srcsrv |-> SelfId,
                                        dsts |-> <<<<C, r[1]>>>>,
                                        content |-> stored_messages[C].content]])
                   ELSE call[t].resp
            /\ pc'[t] = "idle" =>
                 /\ returned'.task = t
                 /\ returned'.reply = [kind |-> "Outgoing", out |-> After(t).resp]
                 /\ \A i, j \in 1..Len(After(t).resp) :
                      After(t).resp[i].message.dsts[1][1]
                        = After(t).resp[j].message.dsts[1][1] => i = j]_vars
C5_Witness ==
  /\ returned.call.op = "announce"
  /\ Len(returned.call.route) = 2
  /\ Cardinality(DOMAIN returned.call.clients) = 2
  /\ returned.reply.kind = "Outgoing"
  /\ Len(returned.reply.out) = 1

\* the earliest stored route that leads to server srv
EarliestRoute(srv) ==
  routes[CHOOSE i \in 1..Len(routes) :
           /\ routes[i][1] = srv
           /\ \A j \in 1..(i - 1) : routes[j][1] # srv]

\* C6 as stated: a client message to a client Z that is not local and that an
\* Announce has named is answered Transfer(nexthop, FQM{dsts = [(Z, H)]}) with
\* H the first and nexthop the last element of the route of the latest
\* Announce naming Z, and never Delayed.
C6_TransferByLatestAnnounce ==
  [][\A t \in Tasks, Z \in ClientIds :
       (Z \notin DOMAIN clients /\ announced[Z] # <<>> /\ RepliesTo(t, Z))
       => NewReply(t) =
            [kind |-> "Transfer", nexthop |-> Last(announced[Z]),
             message |-> [kind |-> "Message",
               fqm |-> [src |-> After(t).src, srcsrv |-> SelfId,
                        dsts |-> <<<<Z, announced[Z][1]>>>>,
                        content |-> After(t).msg.content]]]]_vars

\* C6 amended: as above, but nexthop is the last element of the earliest
\* stored route whose first element is H.
C6_TransferByEarliestRoute ==
  [][\A t \in Tasks, Z \in ClientIds :
       (Z \notin DOMAIN clients /\ announced[Z] # <<>> /\ RepliesTo(t, Z))
       => NewReply(t) =
            [kind |-> "Transfer",
             nexthop |-> Last(EarliestRoute(announced[Z][1])),
             message |-> [kind |-> "Message",
               fqm |-> [src |-> After(t).src, srcsrv |-> SelfId,
                        dsts |-> <<<<Z, announced[Z][1]>>>>,
                        content |-> After(t).msg.content]]]]_vars
C6_Witness ==
  /\ returned.call.op = "client_message"
  /\ \E i \in 1..Len(returned.reply) :
       LET Z == DestsOf(returned.call.msg)[i]
       IN /\ announced[Z] # <<>>
          /\ returned.reply[i].kind = "Transfer"
          /\ returned.reply[i].nexthop # Last(announced[Z])

\* C7: one stored message per unknown recipient: the stored message is the
\* last one deferred for it, and every stored message an Announce hands out is
\* the one deferred last before it, each at most once; a message that a later
\* one replaced is never handed out.
C7_LastDeferredWins ==
  \A Z \in ClientIds :
    /\ Z \in DOMAIN stored_messages =>
         /\ deferred[Z] # <<>>
         /\ stored_messages[Z] = Last(deferred[Z])
    /\ \A k \in 1..Len(emitted[Z]) :
         /\ emitted[Z][k].n \in 1..Len(deferred[Z])
         /\ deferred[Z][emitted[Z][k].n]
              = [src |-> emitted[Z][k].src, content |-> emitted[Z][k].content]
         /\ \A l \in 1..(k - 1) : emitted[Z][l].n < emitted[Z][k].n
C7_Witness ==
  \E Z \in ClientIds :
    /\ Len(deferred[Z]) = 2 /\ deferred[Z][1] # deferred[Z][2]
    /\ Len(emitted[Z]) = 1 /\ emitted[Z][1].n = 2
    /\ returned.call.op = "announce"
    /\ Len(returned.reply.out) = 1

\* C8: no client id is both a local client and a remote client.
C8_LocalRemoteDisjoint == DOMAIN clients \cap DOMAIN remote_clients = {}

\* C9: no local client has a stored message.
C9_StoredNotLocal == DOMAIN stored_messages \cap DOMAIN clients = {}
C9_Witness ==
  /\ DOMAIN stored_messages # {}
  /\ returned.call.op = "client_message"
  /\ returned.call.src \in DOMAIN clients
  /\ returned.reply = <<Delivered, Delayed>>

\* A step in which the register_local_client of task t returns.
RegisterReturns(t) ==
  /\ pc[t] \in {"reg_join", "reg_insert"}
  /\ pc'[t] = "idle"
  /\ returned'.task = t

\* C10: register_local_client returns Some(id), with id new in the registry
\* and its mailbox empty, exactly when both spam checks completed and both
\* answered "not a spammer"; otherwise it returns None and the registry is
\* as it was.
C10_Register ==
  [][\A t \in Tasks :
       RegisterReturns(t) =>
         IF returned'.call.ipres = "clean" /\ returned'.call.userres = "clean"
           THEN /\ returned'.reply.kind = "Some"
                /\ returned'.reply.val \notin DOMAIN clients
                /\ DOMAIN clients' = DOMAIN clients \cup {returned'.reply.val}
                /\ clients'[returned'.reply.val].mailbox = <<>>
                /\ \A c \in DOMAIN clients : clients'[c] = clients[c]
           ELSE /\ returned'.reply = None
                /\ clients' = clients]_vars
C10_Witness ==
  /\ returned.call.op = "register"
  /\ returned.reply.kind = "Some"
  /\ clients[returned.reply.val].mailbox = <<>>
  /\ Cardinality(DOMAIN clients) = 2

\* C11: handle_sequenced_message answers Err(UnknownClient) for a src that is
\* not a local client and Err(InternalError) for a seqid not above the last
\* accepted one, and changes nothing in either case; on Ok the last accepted
\* seqid becomes the seqid of the call and nothing else changes.
C11_SequencedReplies ==
  [][returned'.call.op = "sequenced" =>
       LET src == returned'.call.src
           seqid == returned'.call.seqid
       IN IF src \notin DOMAIN clients
            THEN /\ returned'.reply = [kind |-> "Err", err |-> "UnknownClient"]
                 /\ UNCHANGED shared
            ELSE IF seqid <= clients[src].seqid
              THEN /\ returned'.reply = [kind |-> "Err", err |-> "InternalError"]
                   /\ UNCHANGED shared
              ELSE /\ returned'.reply = [kind |-> "Ok", val |-> returned'.call.content]
                   /\ clients' = [clients EXCEPT ![src].seqid = seqid]
                   /\ UNCHANGED <<routes, remote_clients, stored_messages>>]_vars
C11_Witness ==
  /\ returned.call.op = "sequenced"
  /\ returned.reply = [kind |-> "Err", err |-> "InternalError"]
  /\ returned.call.src \in DOMAIN clients
  /\ returned.call.seqid = clients[returned.call.src].seqid
  /\ returned.call.seqid > 0

\* Route tables for route_to alone: any non-empty routes, this server and
\* repeated servers included.
AnyRoutes == SeqsUpTo(ServerIds, MaxRouteLen) \ {<<>>}
RouteTables == SeqsUpTo(AnyRoutes, MaxTable)

\* The server after Announces without clients have stored a route table.
RouteInit ==
  /\ clients = EmptyMap
  /\ routes \in RouteTables
  /\ remote_clients = EmptyMap
  /\ stored_messages = EmptyMap
  /\ locks = [l \in LockNames |-> [w |-> NoTask, r |-> {}]]
  /\ pc = [t \in Tasks |-> "idle"]
  /\ call = [t \in Tasks |-> NoCall]
  /\ returned = NoReturn
  /\ budget = MaxCalls
  /\ accepted = [c \in ClientIds |-> <<>>]
  /\ delivered = [c \in ClientIds |-> <<>>]
  /\ polled = [c \in ClientIds |-> <<>>]
  /\ announced = [c \in ClientIds |-> <<>>]
  /\ deferred = [c \in ClientIds |-> <<>>]
  /\ emitted = [c \in ClientIds |-> <<>>]

RouteNext == \E destination \in ServerIds : RouteTo("t1", destination)

RouteSpec == RouteInit /\ [][RouteNext]_vars

\* The undirected graph of the claim: consecutive servers of a stored route,
\* and this server with the last server of each stored route.
Edge(a, b) ==
  \E i \in 1..Len(routes) :
    \/ \E j \in 1..(Len(routes[i]) - 1) : {routes[i][j], routes[i][j + 1]} = {a, b}
    \/ {SelfId, Last(routes[i])} = {a, b}

\* the servers at most k edges away from this server
RECURSIVE Within(_)
Within(k) ==
  IF k = 0 THEN {SelfId}
  ELSE LET W == Within(k - 1)
       IN W \cup {b \in ServerIds : \E a \in W : Edge(a, b)}
Dist(d) ==
  CHOOSE k \in 0..Cardinality(ServerIds) :
    d \in Within(k) /\ (k = 0 \/ d \notin Within(k - 1))

\* C12: route_to(dest) returns None exactly when dest cannot be reached from
\* this server in the graph of the stored routes; otherwise a path from this
\* server to dest along edges of that graph with as few edges as any path
\* (so [self] for dest = self).
C12_ShortestPath ==
  returned.call.op = "route_to" =>
    LET dest == returned.call.destination
        r == returned.reply
    IN IF dest \in Within(Cardinality(ServerIds))
         THEN /\ r.kind = "Some"
              /\ r.val[1] = SelfId
              /\ r.val[Len(r.val)] = dest
              /\ \A i \in 1..(Len(r.val) - 1) : Edge(r.val[i], r.val[i + 1])
              /\ Len(r.val) = Dist(dest) + 1
         ELSE r = None
C12_Witness ==
  /\ returned.call.op = "route_to"
  /\ returned.reply.kind = "Some"
  /\ Len(returned.reply.val) = 2
  /\ \E i \in 1..Len(routes) :
       /\ routes[i][1] = returned.call.destination
       /\ Last(routes[i]) \notin {SelfId, returned.call.destination}

\* C13: a task holds two locks at once only in the remote branch of
\* client_message, and then these are remote_clients and routes; everywhere
\* else, the deferred branch included, it holds at most one.
C13_OnlyRemoteBranchNests ==
  \A t \in Tasks :
    Cardinality(HeldBy(t)) >= 2 =>
      /\ pc[t] = "cm_routes"
      /\ HeldBy(t) = {"remote_clients", "routes"}

\* Fair scheduling: an operation in flight whose next step stays possible
\* takes it (the executor polls ready tasks; the spam-check timer fires).
\* Checked on MaxLiveCalls calls by two tasks.
LiveInit ==
  /\ clients = EmptyMap
  /\ routes = <<>>
  /\ remote_clients = EmptyMap
  /\ stored_messages = EmptyMap
  /\ locks = [l \in LockNames |-> [w |-> NoTask, r |-> {}]]
  /\ pc = [t \in Tasks |-> "idle"]
  /\ call = [t \in Tasks |-> NoCall]
  /\ returned = NoReturn
  /\ budget = MaxLiveCalls
  /\ accepted = [c \in ClientIds |-> <<>>]
  /\ delivered = [c \in ClientIds |-> <<>>]
  /\ polled = [c \in ClientIds |-> <<>>]
  /\ announced = [c \in ClientIds |-> <<>>]
  /\ deferred = [c \in ClientIds |-> <<>>]
  /\ emitted = [c \in ClientIds |-> <<>>]

FairSpec == LiveInit /\ [][Next]_vars /\ \A t \in Tasks : WF_vars(Resume(t))

\* C14: concurrent operations never deadlock: under fair scheduling every
\* operation in flight returns.
C14_EveryCallReturns ==
  \A t \in Tasks : (pc[t] # "idle") ~> (pc[t] = "idle")
C14_Witness ==
  \E t, u \in Tasks :
    /\ pc[t] = "cm_store" /\ locks["remote_clients"].w = t
    /\ pc[u] = "ann_remote"

MidAnnounce(t) ==
  /\ pc[t] \in {"ann_remote", "ann_flush"}
  /\ call[t].todo \cap DOMAIN stored_messages # {}

\* A step in which task u reads or writes routes, remote_clients or
\* stored_messages (client message past its local lookup, Announce,
\* forwarded message, route_to).
TouchesRouting(u) ==
  \/ /\ pc[u] \in {"cm_remote", "cm_routes", "cm_store",
                   "ann_remote", "ann_flush", "msg_route"}
     /\ <<pc[u], call[u]>> # <<pc'[u], call'[u]>>
  \/ /\ pc[u] = "idle"
     /\ IF pc'[u] = "idle"
          THEN returned'.task = u /\ returned'.call.op = "route_to"
          ELSE call'[u].op = "announce"

\* C16: an Announce is atomic: while it is between storing its route and
\* flushing the deferred message of a client it names, no other operation
\* reads or writes the routing state.
C16_AnnounceAtomic ==
  [][\A t, u \in Tasks : (t # u /\ MidAnnounce(t)) => ~TouchesRouting(u)]_vars

\* C17: an Announce with an empty route returns EmptyRoute and changes
\* nothing (no route stored, no client recorded as remote, no deferred
\* message removed); every stored route is non-empty.
C17_EmptyRoute ==
  [][/\ (returned'.call.op = "announce" /\ returned'.call.route = <<>>) =>
          /\ returned'.reply = [kind |-> "EmptyRoute"]
          /\ UNCHANGED shared
     /\ \A t \in Tasks :
          (pc'[t] \in {"ann_remote", "ann_flush"}) => call'[t].route # <<>>
     /\ \A i \in 1..Len(routes') : routes'[i] # <<>>]_vars
C17_Witness ==
  /\ returned.call.op = "announce"
  /\ returned.call.route = <<>>
  /\ returned.reply = [kind |-> "EmptyRoute"]
  /\ routes # <<>>
  /\ DOMAIN returned.call.clients \cap DOMAIN stored_messages # {}

\* C18: handle_server_message(Message(fqm)) returns Error("No destination
\* ..") and changes nothing when fqm.dsts is empty; with first destination
\* (cid, srv) it returns Error("Route .. not found") when route_to(srv) is
\* None, and otherwise Outgoing of the single entry {nexthop = last element
\* of route_to(srv), message = fqm as received}.
C18_ForwardReplies ==
  [][returned'.call.op = "message" =>
       LET fqm == returned'.call.fqm
       IN IF fqm.dsts = <<>>
            THEN /\ returned'.reply =
                      [kind |-> "Error", msg |-> "No destination found for the message"]
                 /\ UNCHANGED shared
            ELSE LET path == route_to(routes, fqm.dsts[1][2])
                 IN IF path = None
                      THEN returned'.reply =
                             [kind |-> "Error", msg |-> "Route for the client not found"]
                      ELSE returned'.reply =
                             [kind |-> "Outgoing",
                              out |-> <<[nexthop |-> path.val[Len(path.val)],
                                         message |-> fqm]>>]]_vars
C18_Witness ==
  /\ returned.call.op = "message"
  /\ returned.reply.kind = "Outgoing"
  /\ Len(route_to(routes, returned.call.fqm.dsts[1][2]).val) = 3
  /\ returned.reply.out[1].nexthop = returned.call.fqm.dsts[1][2]

\* C19: client_poll(c) returns Message{src, content} of the head of c's
\* mailbox and removes that entry alone; Nothing for an empty mailbox and
\* DelayedError(UnknownRecipient(c)) for an id that is not a local client
\* (a remote client included), both without changing anything.
C19_PollReplies ==
  [][returned'.call.op = "poll" =>
       LET c == returned'.call.client
       IN IF c \notin DOMAIN clients
            THEN /\ returned'.reply =
                      [kind |-> "DelayedError",
                       err |-> [kind |-> "UnknownRecipient", id |-> c]]
                 /\ UNCHANGED shared
            ELSE IF clients[c].mailbox = <<>>
              THEN /\ returned'.reply = [kind |-> "Nothing"]
                   /\ UNCHANGED shared
              ELSE /\ returned'.reply =
                        [kind |-> "Message", src |-> clients[c].mailbox[1][1],
                         content |-> clients[c].mailbox[1][2]]
                   /\ clients' = [clients EXCEPT ![c].mailbox =
                                    SubSeq(@, 2, Len(@))]
                   /\ UNCHANGED <<routes, remote_clients, stored_messages>>]_vars
C19_Witness ==
  /\ returned.call.op = "poll"
  /\ returned.call.client \in DOMAIN remote_clients
  /\ returned.reply.kind = "DelayedError"
  /\ returned.reply.err.id = returned.call.client

\* C20: register_local_client always returns: a spam check that never
\* answers is cut off by its timeout, the call then returns None, and no lock
\* is held while the checks are awaited.
C20_RegisterTerminates ==
  \A t \in Tasks :
    /\ [](pc[t] = "reg_join" => HeldBy(t) = {})
    /\ []((/\ returned.task = t
           /\ returned.call.op = "register"
           /\ "never" \in {returned.call.ipcheck, returned.call.usercheck})
          => returned.reply = None)
    /\ (pc[t] \in {"reg_join", "reg_insert"}) ~> (pc[t] = "idle")
C20_Witness ==
  \E t, u \in Tasks :
    /\ pc[t] = "reg_join"
    /\ call[t].ipcheck = "never" /\ call[t].usercheck = "never"
    /\ locks["clients"].w = u

\* ================================================================= codec
\* netproto/encode.rs and netproto/decode.rs.  A byte is a number in 0..255,
\* a stream a sequence of bytes.  A u128 is kept as its 16 bytes, least
\* significant first, a usize as its 8 bytes, a Uuid as its 16 bytes and a
\* String as its UTF-8 bytes.
RECURSIVE LE(_, _)
\* the w little-endian bytes of the number n
LE(n, w) == IF w = 0 THEN <<>> ELSE <<n % 256>> \o LE(n \div 256, w - 1)
Zeros(w) == [i \in 1..w |-> 0]
\* value as u128 of an unsigned integer read from fewer bytes
Widen(bs) == bs \o Zeros(16 - Len(bs))
\* m < (1 << (8 * k))
Below(m, k) == \A i \in (k + 1)..16 : m[i] = 0

\* encode::u128
enc_u128(m) ==
  IF Below(m, 1) /\ m[1] < 251 THEN <<m[1]>>
  ELSE IF Below(m, 2) THEN <<251>> \o SubSeq(m, 1, 2)
  ELSE IF Below(m, 4) THEN <<252>> \o SubSeq(m, 1, 4)
  ELSE IF Below(m, 8) THEN <<253>> \o SubSeq(m, 1, 8)
  ELSE <<254>> \o m

\* encode::uuid, clientid, serverid
enc_uuid(m) == <<16>> \o m
enc_clientid(m) == enc_uuid(m)
enc_serverid(m) == enc_uuid(m)

\* encode::string: u128(w, bytes.len() as u128)?; w.write_all(bytes)
enc_string(m) == enc_u128(LE(Len(m), 16)) \o m

\* Results of a decoder: a value and the rest of the stream, an error
\* (anyhow::Error), or a panic.
DOk(v, rest) == [kind |-> "Ok", val |-> v, rest |-> rest]
DErr(e) == [kind |-> "Err", err |-> e]
DPanic == [kind |-> "Panic"]

\* rd.read_u8()
read_u8(rd) ==
  IF rd = <<>> THEN DErr("UnexpectedEof") ELSE DOk(rd[1], Tail(rd))
\* rd.read_exact(&mut [0; n]), rd.read_u16/u32/u64/u128::<LittleEndian>()
read_exact(rd, n) ==
  IF Len(rd) < n THEN DErr("UnexpectedEof")
  ELSE DOk(SubSeq(rd, 1, n), SubSeq(rd, n + 1, Len(rd)))

\* decode::u128
dec_u128(rd) ==
  LET p == read_u8(rd)
  IN IF p.kind # "Ok" THEN p
     ELSE IF p.val <= 250 THEN DOk(Widen(<<p.val>>), p.rest)
     ELSE IF p.val = 255 THEN DErr("Invalid prefix byte for u128 encoding")
     ELSE LET v == read_exact(p.rest, CASE p.val = 251 -> 2 [] p.val = 252 -> 4
                                        [] p.val = 253 -> 8 [] p.val = 254 -> 16)
          IN IF v.kind # "Ok" THEN v ELSE DOk(Widen(v.val), v.rest)

\* decode::uuid: rd.read_u8().unwrap() == 16, then read_exact of 16 bytes
dec_uuid(rd) ==
  LET p == read_u8(rd)
  IN IF p.kind # "Ok" THEN DPanic
     ELSE IF p.val = 16 THEN read_exact(p.rest, 16)
     ELSE DErr("Invalid prefix byte for u8 encoding")
dec_clientid(rd) == dec_uuid(rd)
dec_serverid(rd) == dec_uuid(rd)

\* v as usize (64-bit target): the low 8 bytes
AsUsize(v) == SubSeq(v, 1, 8)
\* the usize n as a number, when it is below 2^24
IsSmall(n) == \A i \in 4..8 : n[i] = 0
Small(n) == n[1] + 256 * n[2] + 65536 * n[3]
\* n > isize::MAX
AboveIsizeMax(n) == n[8] >= 128
\* How often a loop `for _ in 0..n` over element decoders runs on rd: each
\* element takes at least one byte, so more than Len(rd) rounds end in the
\* failure of round Len(rd) + 1 at the latest.
Rounds(n, rd) ==
  IF IsSmall(n) /\ Small(n) <= Len(rd) THEN Small(n) ELSE Len(rd) + 1

\* String::from_utf8: well-formed UTF-8
RECURSIVE IsUtf8(_)
IsUtf8(b) ==
  LET n == Len(b)
      Cont(i) == i <= n /\ b[i] >= 128 /\ b[i] <= 191
      From(k) == IsUtf8(SubSeq(b, k, n))
  IN \/ \A i \in 1..n : b[i] <= 127
     \/ b[1] <= 127 /\ From(2)
     \/ b[1] >= 194 /\ b[1] <= 223 /\ Cont(2) /\ From(3)
     \/ b[1] = 224 /\ Cont(2) /\ b[2] >= 160 /\ Cont(3) /\ From(4)
     \/ b[1] \in (225..236) \cup {238, 239} /\ Cont(2) /\ Cont(3) /\ From(4)
     \/ b[1] = 237 /\ Cont(2) /\ b[2] <= 159 /\ Cont(3) /\ From(4)
     \/ b[1] = 240 /\ Cont(2) /\ b[2] >= 144 /\ Cont(3) /\ Cont(4) /\ From(5)
     \/ b[1] \in 241..243 /\ Cont(2) /\ Cont(3) /\ Cont(4) /\ From(5)
     \/ b[1] = 244 /\ Cont(2) /\ b[2] <= 143 /\ Cont(3) /\ Cont(4) /\ From(5)

\* decode::string: vec![0u8; size] panics with "capacity overflow" above
\* isize::MAX; read_exact; String::from_utf8
dec_string(rd) ==
  LET c == dec_u128(rd)
  IN IF c.kind # "Ok" THEN c
     ELSE LET size == AsUsize(c.val)
          IN IF AboveIsizeMax(size) THEN DPanic
             ELSE IF ~IsSmall(size) THEN DErr("UnexpectedEof")
             ELSE LET buf == read_exact(c.rest, Small(size))
                  IN IF buf.kind # "Ok" THEN buf
                     ELSE IF IsUtf8(buf.val) THEN buf
                     ELSE DErr("FromUtf8Error")

RECURSIVE Flat(_)
\* the streams of s written one after the other
Flat(s) == IF s = <<>> THEN <<>> ELSE Head(s) \o Flat(Tail(s))
\* The keys of the HashMap m in the order its iterator yields them; ord lists
\* every key once and stands for the hasher's arbitrary order.
Iter(m, ord) == SelectSeq(ord, LAMBDA k : k \in DOMAIN m)
\* x.len() as u128
LenU128(n) == LE(n, 16)
\* for (client, str) in m { clientid(w, client)?; string(w, str)?; }
enc_entries(m, ord) ==
  LET keys == Iter(m, ord)
  IN Flat([i \in 1..Len(keys) |-> enc_clientid(keys[i]) \o enc_string(m[keys[i]])])

\* encode::auth
enc_auth(m) ==
  CASE m.kind = "Hello" -> <<0>> \o enc_clientid(m.user) \o m.nonce
    [] m.kind = "Nonce" -> <<1>> \o enc_serverid(m.server) \o m.nonce
    [] m.kind = "Auth" -> <<2>> \o m.response

\* encode::server
enc_server(m, ord) ==
  CASE m.kind = "Announce" ->
         <<0>> \o enc_u128(LenU128(Len(m.route)))
               \o Flat([i \in 1..Len(m.route) |-> enc_serverid(m.route[i])])
               \o enc_u128(LenU128(Cardinality(DOMAIN m.clients)))
               \o enc_entries(m.clients, ord)
    [] m.kind = "Message" ->
         <<1>> \o enc_clientid(m.src) \o enc_serverid(m.srcsrv)
               \o enc_u128(LenU128(Len(m.dsts)))
               \o Flat([i \in 1..Len(m.dsts) |->
                          enc_clientid(m.dsts[i][1]) \o enc_serverid(m.dsts[i][2])])
               \o enc_string(m.content)

\* encode::client
enc_client(m) ==
  CASE m.kind = "Text" -> <<0>> \o enc_clientid(m.dest) \o enc_string(m.content)
    [] m.kind = "MText" ->
         <<1>> \o enc_u128(LenU128(Len(m.dest)))
               \o Flat([i \in 1..Len(m.dest) |-> enc_clientid(m.dest[i])])
               \o enc_string(m.content)

\* encode::client_replies, the body of `for rep in m`
enc_client_reply(rep, ord) ==
  CASE rep.kind = "Delivered" -> <<0>>
    [] rep.kind = "Error" ->
         <<1>> \o (CASE rep.error.kind = "UnknownClient" -> <<0>>
                     [] rep.error.kind = "BoxFull" -> <<1>> \o enc_clientid(rep.error.id)
                     [] rep.error.kind = "InternalError" -> <<2>>)
    [] rep.kind = "Delayed" -> <<2>>
    [] rep.kind = "Transfer" ->
         <<3>> \o enc_serverid(rep.server) \o enc_server(rep.message, ord)
\* encode::client_replies: the replies one after the other, nothing before
enc_client_replies(m, ord) ==
  Flat([i \in 1..Len(m) |-> enc_client_reply(m[i], ord)])

\* encode::client_poll_reply
enc_client_poll_reply(m) ==
  CASE m.kind = "Message" -> <<0>> \o enc_clientid(m.src) \o enc_string(m.content)
    [] m.kind = "DelayedError" -> <<1>> \o enc_clientid(m.id)
    [] m.kind = "Nothing" -> <<2>>

\* encode::userlist
enc_userlist(m, ord) ==
  enc_u128(LenU128(Cardinality(DOMAIN m))) \o enc_entries(m, ord)

\* encode::client_query
enc_client_query(m) ==
  CASE m.kind = "Register" -> <<0>> \o enc_string(m.name)
    [] m.kind = "Message" -> <<1>> \o enc_client(m.message)
    [] m.kind = "Poll" -> <<2>>
    [] m.kind = "ListUsers" -> <<3>>

\* encode::sequence with f = string
enc_sequence(m) == enc_u128(m.seqid) \o enc_clientid(m.src) \o enc_string(m.content)

\* the `?` operator: an error or a panic ends the decoder, a value goes on
Try(r, K(_)) == IF r.kind # "Ok" THEN r ELSE K(r)

RECURSIVE dec_uuids(_, _, _)
\* for _ in 0..n { acc.push(serverid(rd)?) }, the same for clientid
dec_uuids(rd, n, acc) ==
  IF n = 0 THEN DOk(acc, rd)
  ELSE Try(dec_uuid(rd), LAMBDA u : dec_uuids(u.rest, n - 1, Append(acc, u.val)))

RECURSIVE dec_pairs(_, _, _)
\* for _ in 0..n { dsts.push((clientid(rd)?, serverid(rd)?)) }
dec_pairs(rd, n, acc) ==
  IF n = 0 THEN DOk(acc, rd)
  ELSE Try(dec_clientid(rd), LAMBDA c :
       Try(dec_serverid(c.rest), LAMBDA s :
       dec_pairs(s.rest, n - 1, Append(acc, <<c.val, s.val>>))))

RECURSIVE dec_entries(_, _, _)
\* for _ in 0..n { users.insert(clientid(rd)?, string(rd)?) }
dec_entries(rd, n, acc) ==
  IF n = 0 THEN DOk(acc, rd)
  ELSE Try(dec_clientid(rd), LAMBDA c :
       Try(dec_string(c.rest), LAMBDA s :
       dec_entries(s.rest, n - 1, MapInsert(acc, c.val, s.val))))

\* decode::auth
dec_auth(rd) ==
  Try(read_u8(rd), LAMBDA v :
    CASE v.val = 0 ->
           Try(dec_clientid(v.rest), LAMBDA u :
           Try(read_exact(u.rest, 8), LAMBDA n :
           DOk([kind |-> "Hello", user |-> u.val, nonce |-> n.val], n.rest)))
      [] v.val = 1 ->
           Try(dec_serverid(v.rest), LAMBDA s :
           Try(read_exact(s.rest, 8), LAMBDA n :
           DOk([kind |-> "Nonce", server |-> s.val, nonce |-> n.val], n.rest)))
      [] v.val = 2 ->
           Try(read_exact(v.rest, 16), LAMBDA r :
           DOk([kind |-> "Auth", response |-> r.val], r.rest))
      [] OTHER -> DErr("Invalid AuthMessage"))

\* decode::server
dec_server(rd) ==
  Try(read_u8(rd), LAMBDA v :
    CASE v.val = 0 ->
           Try(dec_u128(v.rest), LAMBDA nr :
           Try(dec_uuids(nr.rest, Rounds(AsUsize(nr.val), nr.rest), <<>>), LAMBDA route :
           Try(dec_u128(route.rest), LAMBDA nc :
           Try(dec_entries(nc.rest, Rounds(AsUsize(nc.val), nc.rest), EmptyMap),
               LAMBDA cl :
           DOk([kind |-> "Announce", route |-> route.val, clients |-> cl.val],
               cl.rest)))))
      [] v.val = 1 ->
           Try(dec_clientid(v.rest), LAMBDA src :
           Try(dec_serverid(src.rest), LAMBDA srcsrv :
           Try(dec_u128(srcsrv.rest), LAMBDA nd :
           Try(dec_pairs(nd.rest, Rounds(AsUsize(nd.val), nd.rest), <<>>), LAMBDA dsts :
           Try(dec_string(dsts.rest), LAMBDA content :
           DOk([kind |-> "Message", src |-> src.val, srcsrv |-> srcsrv.val,
                dsts |-> dsts.val, content |-> content.val], content.rest))))))
      [] OTHER -> DErr("Invalid ServerMessage"))

\* decode::client
dec_client(rd) ==
  Try(read_u8(rd), LAMBDA v :
    CASE v.val = 0 ->
           Try(dec_clientid(v.rest), LAMBDA dest :
           Try(dec_string(dest.rest), LAMBDA content :
           DOk([kind |-> "Text", dest |-> dest.val, content |-> content.val],
               content.rest)))
      [] v.val = 1 ->
           Try(dec_u128(v.rest), LAMBDA nd :
           Try(dec_uuids(nd.rest, Rounds(AsUsize(nd.val), nd.rest), <<>>), LAMBDA dest :
           Try(dec_string(dest.rest), LAMBDA content :
           DOk([kind |-> "MText", dest |-> dest.val, content |-> content.val],
               content.rest))))
      [] OTHER -> DErr("Invalid ClientMessage"))

\* decode::client_replies, the body of `for _ in 0..nb_replies`
dec_client_reply(rd) ==
  Try(read_u8(rd), LAMBDA v :
    CASE v.val = 0 -> DOk([kind |-> "Delivered"], v.rest)
      [] v.val = 1 ->
           Try(read_u8(v.rest), LAMBDA e :
             CASE e.val = 0 ->
                    DOk([kind |-> "Error", error |-> [kind |-> "UnknownClient"]], e.rest)
               [] e.val = 1 ->
                    Try(dec_clientid(e.rest), LAMBDA c :
                    DOk([kind |-> "Error", error |-> [kind |-> "BoxFull", id |-> c.val]],
                        c.rest))
               [] e.val = 2 ->
                    DOk([kind |-> "Error", error |-> [kind |-> "InternalError"]], e.rest)
               [] OTHER -> DErr("Invalid ClientError variant"))
      [] v.val = 2 -> DOk([kind |-> "Delayed"], v.rest)
      [] v.val = 3 ->
           Try(dec_serverid(v.rest), LAMBDA s :
           Try(dec_server(s.rest), LAMBDA m :
           DOk([kind |-> "Transfer", server |-> s.val, message |-> m.val], m.rest)))
      [] OTHER -> DErr("Invalid ClientReply variant"))

RECURSIVE dec_replies(_, _, _)
dec_replies(rd, n, acc) ==
  IF n = 0 THEN DOk(acc, rd)
  ELSE Try(dec_client_reply(rd), LAMBDA r :
       dec_replies(r.rest, n - 1, Append(acc, r.val)))

\* Vec::with_capacity(n) panics with "capacity overflow" when n replies take
\* more than isize::MAX bytes; a ClientReply takes at least 64 bytes, so every
\* n >= 2^57 does.
CapacityOverflow(n) == n[8] >= 2

\* decode::client_replies: a count first, then that many replies
dec_client_replies(rd) ==
  Try(dec_u128(rd), LAMBDA nb :
    IF CapacityOverflow(AsUsize(nb.val)) THEN DPanic
    ELSE dec_replies(nb.rest, Rounds(AsUsize(nb.val), nb.rest), <<>>))

\* decode::client_poll_reply
dec_client_poll_reply(rd) ==
  Try(read_u8(rd), LAMBDA v :
    CASE v.val = 0 ->
           Try(dec_clientid(v.rest), LAMBDA src :
           Try(dec_string(src.rest), LAMBDA content :
           DOk([kind |-> "Message", src |-> src.val, content |-> content.val],
               content.rest)))
      [] v.val = 1 ->
           Try(dec_clientid(v.rest), LAMBDA c :
           DOk([kind |-> "DelayedError", id |-> c.val], c.rest))
      [] v.val = 2 -> DOk([kind |-> "Nothing"], v.rest)
      [] OTHER -> DErr("Invalid ClientPollReply"))

\* decode::userlist
dec_userlist(rd) ==
  Try(dec_u128(rd), LAMBDA nb :
    dec_entries(nb.rest, Rounds(AsUsize(nb.val), nb.rest), EmptyMap))

\* decode::client_query
dec_client_query(rd) ==
  Try(read_u8(rd), LAMBDA v :
    CASE v.val = 0 ->
           Try(dec_string(v.rest), LAMBDA name :
           DOk([kind |-> "Register", name |-> name.val], name.rest))
      [] v.val = 1 ->
           Try(dec_client(v.rest), LAMBDA m :
           DOk([kind |-> "Message", message |-> m.val], m.rest))
      [] v.val = 2 -> DOk([kind |-> "Poll"], v.rest)
      [] v.val = 3 -> DOk([kind |-> "ListUsers"], v.rest)
      [] OTHER -> DErr("Invalid ClientQuery variant"))

\* decode::sequence with d = string
dec_sequence(rd) ==
  Try(dec_u128(rd), LAMBDA seqid :
  Try(dec_clientid(seqid.rest), LAMBDA src :
  Try(dec_string(src.rest), LAMBDA content :
  DOk([seqid |-> seqid.val, src |-> src.val, content |-> content.val],
      content.rest))))

\* --------------------------------------------------- codec: specification
\* the encoder and the decoder of each protocol type
Types == {"u128", "string", "clientid", "serverid", "auth", "client", "server",
          "client_replies", "client_poll_reply", "userlist", "client_query",
          "sequence"}
EncodeAs(type, m, ord) ==
  CASE type = "u128" -> enc_u128(m)
    [] type = "string" -> enc_string(m)
    [] type = "clientid" -> enc_clientid(m)
    [] type = "serverid" -> enc_serverid(m)
    [] type = "auth" -> enc_auth(m)
    [] type = "client" -> enc_client(m)
    [] type = "server" -> enc_server(m, ord)
    [] type = "client_replies" -> enc_client_replies(m, ord)
    [] type = "client_poll_reply" -> enc_client_poll_reply(m)
    [] type = "userlist" -> enc_userlist(m, ord)
    [] type = "client_query" -> enc_client_query(m)
    [] type = "sequence" -> enc_sequence(m)
DecodeAs(type, rd) ==
  CASE type = "u128" -> dec_u128(rd)
    [] type = "string" -> dec_string(rd)
    [] type = "clientid" -> dec_clientid(rd)
    [] type = "serverid" -> dec_serverid(rd)
    [] type = "auth" -> dec_auth(rd)
    [] type = "client" -> dec_client(rd)
    [] type = "server" -> dec_server(rd)
    [] type = "client_replies" -> dec_client_replies(rd)
    [] type = "client_poll_reply" -> dec_client_poll_reply(rd)
    [] type = "userlist" -> dec_userlist(rd)
    [] type = "client_query" -> dec_client_query(rd)
    [] type = "sequence" -> dec_sequence(rd)

\* the values the sender encodes: at most MaxElems elements in a list or map
MaxElems == 2
\* the largest stream of arbitrary bytes handed to a decoder
MaxRaw == 3

\* 2^(8k) and 2^(8k) - 1 as u128
Pow256(k) == [i \in 1..16 |-> IF i = k + 1 THEN 1 ELSE 0]
Pow256Less1(k) == [i \in 1..16 |-> IF i <= k THEN 255 ELSE 0]
U128s == {LE(0, 16), LE(250, 16), LE(251, 16), Pow256Less1(2), Pow256(2),
          Pow256Less1(4), Pow256(4), Pow256Less1(8), Pow256(8), Pow256Less1(16)}
Uuids == {[i \in 1..16 |-> 16], [i \in 1..16 |-> i - 1]}
\* "", "hi", "e" with an acute accent
Strings == {<<>>, <<104, 105>>, <<195, 169>>}
\* a string of 251 bytes, the first length written with the prefix 251
LongStrings == {[i \in 1..251 |-> 97]}
Nonces == {[i \in 1..8 |-> 0], [i \in 1..8 |-> 250 + i]}
Responses == {[i \in 1..16 |-> 255]}
\* the orders in which a HashMap may yield its keys
Orders == {<<a, b>> : a, b \in Uuids} \ {<<a, a>> : a \in Uuids}
UserLists == UNION {[S -> Strings] : S \in SUBSET Uuids}

AuthMessages ==
  {[kind |-> "Hello", user |-> u, nonce |-> n] : u \in Uuids, n \in Nonces}
  \cup {[kind |-> "Nonce", server |-> u, nonce |-> n] : u \in Uuids, n \in Nonces}
  \cup {[kind |-> "Auth", response |-> r] : r \in Responses}
ServerMessages ==
  {[kind |-> "Announce", route |-> r, clients |-> c] :
     r \in SeqsUpTo(Uuids, MaxElems), c \in UserLists}
  \cup {[kind |-> "Message", src |-> s, srcsrv |-> v, dsts |-> d, content |-> c] :
          s \in Uuids, v \in Uuids, d \in SeqsUpTo(Uuids \X Uuids, MaxElems),
          c \in Strings}
WireClientMessages ==
  {[kind |-> "Text", dest |-> d, content |-> c] : d \in Uuids, c \in Strings}
  \cup {[kind |-> "MText", dest |-> d, content |-> c] :
          d \in SeqsUpTo(Uuids, MaxElems), c \in Strings}
\* the messages carried by the Transfer replies: one destination, one route
TransferMessages ==
  {m \in ServerMessages :
     /\ m.kind = "Announce" => Len(m.route) = 1 /\ Cardinality(DOMAIN m.clients) = 1
     /\ m.kind = "Message" => Len(m.dsts) = 1 /\ m.src = m.dsts[1][1]
                              /\ m.content = <<>>}
ClientReplies ==
  {[kind |-> "Delivered"], [kind |-> "Delayed"],
   [kind |-> "Error", error |-> [kind |-> "UnknownClient"]],
   [kind |-> "Error", error |-> [kind |-> "InternalError"]]}
  \cup {[kind |-> "Error", error |-> [kind |-> "BoxFull", id |-> u]] : u \in Uuids}
  \cup {[kind |-> "Transfer", server |-> u, message |-> m] :
          u \in Uuids, m \in TransferMessages}
ClientPollReplies ==
  {[kind |-> "Message", src |-> u, content |-> c] : u \in Uuids, c \in Strings}
  \cup {[kind |-> "DelayedError", id |-> u] : u \in Uuids}
  \cup {[kind |-> "Nothing"]}
ClientQueries ==
  {[kind |-> "Register", name |-> n] : n \in Strings}
  \cup {[kind |-> "Message", message |-> m] : m \in WireClientMessages}
  \cup {[kind |-> "Poll"], [kind |-> "ListUsers"]}
Sequences ==
  {[seqid |-> n, src |-> u, content |-> c] : n \in U128s, u \in Uuids, c \in Strings}

ValuesOf(type) ==
  CASE type = "u128" -> U128s
    [] type = "string" -> Strings \cup LongStrings
    [] type = "clientid" -> Uuids
    [] type = "serverid" -> Uuids
    [] type = "auth" -> AuthMessages
    [] type = "client" -> WireClientMessages
    [] type = "server" -> ServerMessages
    [] type = "client_replies" -> SeqsUpTo(ClientReplies, MaxElems)
    [] type = "client_poll_reply" -> ClientPollReplies
    [] type = "userlist" -> UserLists
    [] type = "client_query" -> ClientQueries
    [] type = "sequence" -> Sequences

\* The streams a peer may send that no encoder wrote: arbitrary bytes, and a
\* count followed by fewer bytes than it announces.
RawBytes == {0, 1, 16, 255}
RawStreams == SeqsUpTo(RawBytes, MaxRaw)
\* the bytes a decoder reads before a count: none before the size of a string,
\* the number of replies and of users; the tag before the route of an Announce
\* and the dest of an MText; the tag and an empty route before the clients of
\* an Announce; the tag, src and srcsrv before the dsts of a Message
LeadsOf(type) ==
  CASE type = "server" ->
         {<<0>>, <<0, 0>>}
           \cup {<<1>> \o enc_clientid(u) \o enc_serverid(u) : u \in Uuids}
    [] type = "client" -> {<<1>>}
    [] OTHER -> {<<>>}
Counting == {"string", "server", "client", "client_replies", "userlist"}
Counts == {LE(0, 16), LE(1, 16), LE(2, 16), LE(4, 16), Pow256(8),
           [Pow256(8) EXCEPT ![1] = 1], Pow256(12), Pow256Less1(16)}
\* a count as the encoder writes it, and as 254 followed by its 16 bytes
CountForms(c) == {enc_u128(c), <<254>> \o c}
Tails == SeqsUpTo({0}, MaxRaw)

\* what a run of the codec starts from: a value to encode, or a stream to decode
\* (sent: the value the stream was encoded from; counted: the count the
\* stream announces and the bytes that follow it)
EncodeCall(type, m, ord) == [op |-> "encode", type |-> type, value |-> m, ord |-> ord]
DecodeCall(type, bytes, sent, counted) ==
  [op |-> "decode", type |-> type, bytes |-> bytes, sent |-> sent,
   counted |-> counted]
CodecStarts(in) ==
  /\ pc = [t \in Tasks |-> IF t = "t1" THEN "codec" ELSE "idle"]
  /\ call = [t \in Tasks |-> IF t = "t1" THEN in ELSE NoCall]
CodecInit ==
  /\ clients = EmptyMap
  /\ routes = <<>>
  /\ remote_clients = EmptyMap
  /\ stored_messages = EmptyMap
  /\ locks = [l \in LockNames |-> [w |-> NoTask, r |-> {}]]
  /\ returned = NoReturn
  /\ budget = MaxCalls
  /\ accepted = [c \in ClientIds |-> <<>>]
  /\ delivered = [c \in ClientIds |-> <<>>]
  /\ polled = [c \in ClientIds |-> <<>>]
  /\ announced = [c \in ClientIds |-> <<>>]
  /\ deferred = [c \in ClientIds |-> <<>>]
  /\ emitted = [c \in ClientIds |-> <<>>]
  /\ \E type \in Types :
       \/ \E m \in ValuesOf(type), ord \in Orders :
            CodecStarts(EncodeCall(type, m, ord))
       \/ \E bytes \in RawStreams :
            CodecStarts(DecodeCall(type, bytes, None, None))
       \/ /\ type \in Counting
          /\ \E c \in Counts, tail \in Tails, lead \in LeadsOf(type) :
             \E form \in CountForms(c) :
               CodecStarts(DecodeCall(type, lead \o form \o tail, None,
                                      Some([count |-> c, left |-> Len(tail)])))

\* the sender encodes its value
Encode(t) ==
  /\ pc[t] = "codec"
  /\ call[t].op = "encode"
  /\ Finish(t, call[t], EncodeAs(call[t].type, call[t].value, call[t].ord))
  /\ UNCHANGED <<shared, locks, budget, ghosts>>

\* the receiver decodes the stream the sender has written
DecodeEncoded(t) ==
  /\ pc[t] = "idle"
  /\ returned.task = t
  /\ returned.call.op = "encode"
  /\ Finish(t, DecodeCall(returned.call.type, returned.reply,
                          Some(returned.call.value), None),
            DecodeAs(returned.call.type, returned.reply))
  /\ UNCHANGED <<shared, locks, budget, ghosts>>

\* the receiver decodes a stream of a peer
Decode(t) ==
  /\ pc[t] = "codec"
  /\ call[t].op = "decode"
  /\ Finish(t, call[t], DecodeAs(call[t].type, call[t].bytes))
  /\ UNCHANGED <<shared, locks, budget, ghosts>>

CodecNext == Encode("t1") \/ DecodeEncoded("t1") \/ Decode("t1")

CodecSpec == CodecInit /\ [][CodecNext]_vars

\* ------------------------------------------------------ claims on the codec
\* C21: the binary codec is a bijection on well-formed values: for every
\* protocol type, decoding the encoding of a value gives that value back.
C21_RoundTrip ==
  (returned.call.op = "decode" /\ returned.call.sent.kind = "Some")
    => /\ returned.reply.kind = "Ok"
       /\ returned.reply.val = returned.call.sent.val

\* C22: the encoding of a list of client replies is the vu128 count of the
\* replies followed by the replies, which is what the decoder reads.
C22_RepliesCounted ==
  (returned.call.op = "encode" /\ returned.call.type = "client_replies")
    => LET m == returned.call.value
       IN returned.reply =
            enc_u128(LenU128(Len(m)))
              \o Flat([i \in 1..Len(m) |-> enc_client_reply(m[i], returned.call.ord)])

\* C23: no decoder panics, whatever the stream: a malformed or truncated
\* stream, the empty one included, is answered with an error.
C23_NoPanic ==
  returned.call.op = "decode" => returned.reply.kind \in {"Ok", "Err"}

\* the count c is larger than n, a number of bytes or elements below 251
Exceeds(c, n) == ~Below(c, 1) \/ c[1] > n
\* C24: a decoder that reads a vu128 count fails whenever the count, taken
\* over the whole range of u128, exceeds what is left of the stream; a count
\* of 2^64 or more is never taken for a smaller one.
C24_CountChecked ==
  ( /\ returned.call.op = "decode"
    /\ returned.call.counted.kind = "Some"
    /\ Exceeds(returned.call.counted.val.count, returned.call.counted.val.left) )
    => returned.reply.kind # "Ok"

\* ---------------------------------------------------- claims on the engine
\* A step in which task t starts handle_server_message(Message(fqm)) with a
\* destination and runs it up to the end of its mailbox lookup.
DeliverStep(t) == pc[t] = "idle" /\ pc'[t] = "msg_route"
\* A step in which task t looks its route up and returns.
ForwardStep(t) == pc[t] = "msg_route" /\ pc'[t] = "idle"

\* C25: handle_server_message(Message(fqm)) acts on the first entry of
\* fqm.dsts only: the mailbox of every other local client, one named by a
\* later entry included, is left as it is, and the reply carries no Outgoing
\* beyond the one for the first entry.
C25_FirstDstOnly ==
  [][\A t \in Tasks :
       /\ DeliverStep(t) =>
            \A c \in DOMAIN clients :
              c # call'[t].fqm.dsts[1][1] => clients'[c] = clients[c]
       /\ ForwardStep(t) =>
            /\ clients' = clients
            /\ returned'.reply.kind = "Outgoing" =>
                 /\ Len(returned'.reply.out) = 1
                 /\ returned'.reply.out[1].message.dsts = call[t].fqm.dsts]_vars
C25_Witness ==
  /\ returned.call.op = "message"
  /\ returned.reply.kind = "Outgoing"
  /\ Len(returned.call.fqm.dsts) = 2
  /\ LET first == returned.call.fqm.dsts[1][1]
         later == returned.call.fqm.dsts[2][1]
     IN /\ later \in DOMAIN clients
        /\ later # first
        /\ clients[later].mailbox = <<>>
        /\ delivered[later] = <<>>

\* C26: in every reachable state, the states in the middle of an Announce
\* included, every entry of remote_clients has a stored route whose first
\* element is the home server of the entry; so the lookup of a remote
\* destination always finds a route and no reply of handle_client_message
\* is Error(UnknownClient).
C26_RemoteHasRoute ==
  /\ \A c \in DOMAIN remote_clients :
       \E i \in 1..Len(routes) : routes[i][1] = remote_clients[c].srcsrv
  /\ returned.call.op = "client_message" =>
       \A i \in 1..Len(returned.reply) :
         returned.reply[i] # [kind |-> "Error", err |-> [kind |-> "UnknownClient"]]
C26_Witness ==
  /\ \E t \in Tasks : pc[t] = "ann_flush" /\ call[t].cur.val \in DOMAIN remote_clients
  /\ Len(routes) = 2
  /\ routes[1][1] # routes[2][1]
  /\ \E c \in DOMAIN remote_clients : remote_clients[c].srcsrv = routes[1][1]

\* C27: in every reachable state in which no Announce is in progress, no
\* client id is a key of both remote_clients and stored_messages: no deferred
\* message is left behind for a client that has been announced.
C27_NoStrandedMessage ==
  (\A t \in Tasks : call[t].op # "announce")
    => (DOMAIN remote_clients) \cap (DOMAIN stored_messages) = {}
C27_Witness ==
  /\ \A t \in Tasks : call[t].op # "announce"
  /\ returned.call.op = "announce"
  /\ returned.reply.kind = "Outgoing"
  /\ returned.reply.out # <<>>
  /\ \E c \in DOMAIN remote_clients :
       deferred[c] # <<>> /\ c \notin DOMAIN stored_messages

\* C28: handle_client_message never answers Delivered for a local recipient
\* whose mailbox held MAILBOX_SIZE entries or more: from the moment a mailbox
\* is at or over its capacity every client message for it is answered
\* Error(BoxFull(recipient)) and leaves it as it is, until polls bring it
\* below MAILBOX_SIZE.
C28_FullBoxRejects ==
  [][\A t \in Tasks, d \in ClientIds :
       (/\ RepliesTo(t, d)
        /\ d \in DOMAIN clients
        /\ Len(clients[d].mailbox) >= MAILBOX_SIZE)
       => /\ NewReply(t) # [kind |-> "Delivered"]
          /\ NewReply(t) = [kind |-> "Error", err |-> [kind |-> "BoxFull", id |-> d]]
          /\ clients' = clients]_vars

C30_NexthopIsDestination ==
  (returned.call.op = "message" /\ returned.reply.kind = "Outgoing")
    => \A i \in 1..Len(returned.reply.out) :
         returned.reply.out[i].nexthop = returned.call.fqm.dsts[1][2]
C30_Witness ==
  /\ returned.call.op = "message"
  /\ returned.reply.kind = "Outgoing"
  /\ returned.call.fqm.dsts[1][2] = SelfId
  /\ returned.reply.out[1].nexthop = SelfId
  /\ clients # EmptyMap

\* C31: a client is registered with last accepted seqid 0, so a first
\* handle_sequenced_message with seqid 0 is answered Err(InternalError) and
\* changes nothing, and no seqid below 1 is ever accepted for any client.
C31_SeqIdsStartAtOne ==
  [][/\ \A id \in (DOMAIN clients') \ (DOMAIN clients) : clients'[id].seqid = 0
     /\ (/\ returned'.call.op = "sequenced"
         /\ returned'.call.seqid = 0
         /\ returned'.call.src \in DOMAIN clients)
        => /\ returned'.reply = [kind |-> "Err", err |-> "InternalError"]
           /\ UNCHANGED shared
     /\ (returned'.call.op = "sequenced" /\ returned'.reply.kind = "Ok")
        => returned'.call.seqid >= 1
     /\ \A c \in ClientIds : \A i \in 1..Len(accepted'[c]) : accepted'[c][i] >= 1]_vars
C31_Witness ==
  /\ returned.call.op = "sequenced"
  /\ returned.call.seqid = 0
  /\ returned.call.src \in DOMAIN clients
  /\ accepted[returned.call.src] = <<>>
  /\ clients[returned.call.src].seqid = 0
  /\ returned.reply = [kind |-> "Err", err |-> "InternalError"]

====
